---- MODULE Spec2Model ----
(***************************************************************************)
(* A model of the physics demos of jahid404/physics-simulation.  Every     *)
(* demo is one Vue component: reactive state, a start (and sometimes a     *)
(* stop) handler, and a tick callback driven by requestAnimationFrame.     *)
(*                                                                         *)
(* Numbers.  The components compute in IEEE doubles; the model computes in *)
(* fixed point with truncating division (Quot):                            *)
(*   time        1 unit = 1/3000 s  (1/60 s = 50 units, 1 ms = 3 units)     *)
(*   spring      position mm, velocity mm/s                                *)
(*   pendulums   angle 1e-4 rad, angular velocity 1e-4 rad/s, gravity      *)
(*               cm/s^2, length px (100 px = 1 m), damping 1e-4 /s         *)
(* The unit of every other quantity is stated where its demo is modelled.  *)
(***************************************************************************)
EXTENDS Integers, Sequences, FiniteSets, TLC

VARIABLES
    mounted,    \* the component the router has mounted
    now,        \* performance.now(), in time units
    frames,     \* callbacks requestAnimationFrame holds, not yet run
    event,      \* the handler that ran last, with the dt it measured
    view        \* the reactive state and module variables of that component

vars == <<mounted, now, frames, event, view>>

(***************************************************************************)
(* Bounds of the model.                                                    *)
(***************************************************************************)
\* the clock stops advancing here
MaxNow == 400

(***************************************************************************)
(* Arithmetic.                                                             *)
(***************************************************************************)
UnitsPerSecond == 3000

Abs(x) == IF x < 0 THEN -x ELSE x

\* a / b rounded toward zero, b > 0
Quot(a, b) == IF a >= 0 THEN a \div b ELSE -((-a) \div b)

(***************************************************************************)
(* The browser: the clock and the animation-frame queue.                   *)
(***************************************************************************)
\* intervals between two animation frames: one 60 Hz frame, a slow frame
\* (53 ms), a frame after the tab was in the background (103 ms)
FrameIntervals == {50, 160, 310}

\* the time that can pass between two reads of the clock in one handler
InHandlerDelays == {0, 3}

\* the interval of a display that delivers frames at a steady 60 Hz
SteadyFrame == 50

Handles == {f.handle : f \in frames}

\* requestAnimationFrame returns a handle no pending callback has and the
\* component does not hold
NewHandle(held) ==
    CHOOSE h \in 1..(Cardinality(frames) + 2) :
        /\ h \notin Handles \cup {held}
        /\ \A k \in 1..(h - 1) : k \in Handles \cup {held}

requestAnimationFrame(fs, h, fn, env) ==
    fs \cup {[handle |-> h, fn |-> fn, env |-> env]}

cancelAnimationFrame(fs, h) == {f \in fs : f.handle # h}

NoEvent == [op |-> "none", dt |-> 0, applied |-> FALSE]

(***************************************************************************)
(* Spring-mass oscillator.                                                 *)
(***************************************************************************)
SpringInit(m, k, c, x0, gm) ==
    [mass |-> m, springConstant |-> k, dampingCoefficient |-> c,
     initialDisplacement |-> x0, gravityMultiplier |-> gm,
     position |-> 0, velocity |-> 0, acceleration |-> 0, time |-> 0,
     isRunning |-> FALSE, pathPoints |-> <<>>,
     animationFrameId |-> 0, lastTimestamp |-> 0]

\* the state startSimulation leaves when no run is in progress
SpringStarted(s, t, h) ==
    [s EXCEPT !.time = 0, !.position = s.initialDisplacement,
              !.velocity = 0, !.acceleration = 0,
              !.pathPoints = <<[t |-> 0, y |-> s.initialDisplacement]>>,
              !.isRunning = TRUE, !.lastTimestamp = t,
              !.animationFrameId = h]

\* startSimulation without its test of isRunning
SpringStartSimulation_Restarts ==
    /\ mounted = "spring"
    /\ LET h == NewHandle(view.animationFrameId) IN
            /\ view' = SpringStarted(view, now, h)
            /\ frames' = requestAnimationFrame(frames, h, "updateSimulation", 0)
    /\ event' = [op |-> "start", dt |-> 0, applied |-> FALSE]
    /\ UNCHANGED <<mounted, now>>

SpringStartSimulation ==
    /\ mounted = "spring"
    /\ IF view.isRunning
       THEN UNCHANGED <<view, frames>>
       ELSE LET h == NewHandle(view.animationFrameId) IN
            /\ view' = SpringStarted(view, now, h)
            /\ frames' = requestAnimationFrame(frames, h, "updateSimulation", 0)
    /\ event' = [op |-> "start", dt |-> 0, applied |-> FALSE]
    /\ UNCHANGED <<mounted, now>>

\* the state stopSimulation leaves, before it cancels the frame
SpringStopped_StillRunning(s) == s

SpringStopped(s) == [s EXCEPT !.isRunning = FALSE]

SpringStopSimulation ==
    /\ mounted = "spring"
    /\ view' = SpringStopped(view)
    /\ frames' = cancelAnimationFrame(frames, view.animationFrameId)
    /\ event' = [op |-> "stop", dt |-> 0, applied |-> FALSE]
    /\ UNCHANGED <<mounted, now>>

\* twice the mechanical energy, k x^2 + m v^2
SpringEnergy(s) ==
    s.springConstant * s.position * s.position + s.mass * s.velocity * s.velocity

\* twice the energy startSimulation leaves: displaced by initialDisplacement, at rest
SpringStartEnergy(s) ==
    s.springConstant * s.initialDisplacement * s.initialDisplacement

\* one pass of updateSimulation over a running spring
SpringStep(s, timestamp, h) ==
    LET deltaTime == (timestamp - s.lastTimestamp) * s.gravityMultiplier
        time1 == s.time + deltaTime
        springForce == -(s.springConstant * s.position)
        dampingForce == -(s.dampingCoefficient * s.velocity)
        acc == Quot(springForce + dampingForce, s.mass)
        vel == s.velocity + Quot(acc * deltaTime, UnitsPerSecond)
        pos == s.position + Quot(vel * deltaTime, UnitsPerSecond)
        n == Len(s.pathPoints)
        push == n < 2 \/ time1 - s.pathPoints[n].t > 48
    IN  [s EXCEPT !.lastTimestamp = timestamp, !.time = time1,
                  !.acceleration = acc, !.velocity = vel, !.position = pos,
                  !.pathPoints = IF push THEN Append(@, [t |-> time1, y |-> pos])
                                 ELSE @,
                  !.animationFrameId = h]

SpringUpdateSimulation ==
    /\ mounted = "spring"
    /\ \E f \in frames, d \in FrameIntervals :
        /\ f.fn = "updateSimulation"
        /\ now + d <= MaxNow
        /\ now' = now + d
        /\ IF ~view.isRunning
           THEN /\ frames' = frames \ {f}
                /\ UNCHANGED view
                /\ event' = [op |-> "tick", dt |-> 0, applied |-> FALSE]
           ELSE LET h == NewHandle(view.animationFrameId) IN
                /\ view' = SpringStep(view, now', h)
                /\ frames' = requestAnimationFrame(frames \ {f}, h,
                                                   "updateSimulation", 0)
                /\ event' = [op |-> "tick",
                             dt |-> (now' - view.lastTimestamp)
                                        * view.gravityMultiplier,
                             applied |-> TRUE]
    /\ UNCHANGED mounted

\* toggleSimulation of the variant with one Start/Stop button
SpringToggleSimulation ==
    IF view.isRunning THEN SpringStopSimulation ELSE SpringStartSimulation

\* the Restart button of that variant, rendered while isRunning: its click
\* handler is startSimulation
SpringRestart ==
    /\ mounted = "spring"
    /\ view.isRunning
    /\ IF view.isRunning
       THEN UNCHANGED <<view, frames>>
       ELSE LET h == NewHandle(view.animationFrameId) IN
            /\ view' = SpringStarted(view, now, h)
            /\ frames' = requestAnimationFrame(frames, h, "updateSimulation", 0)
    /\ event' = [op |-> "restart", dt |-> 0, applied |-> FALSE]
    /\ UNCHANGED <<mounted, now>>

SpringToggleNext ==
    \/ SpringToggleSimulation
    \/ SpringRestart
    \/ SpringUpdateSimulation

SpringNext ==
    \/ SpringStartSimulation
    \/ SpringStopSimulation
    \/ SpringUpdateSimulation

(***************************************************************************)
(* Angles: Math.PI, degrees to radians, Math.sin, all in 1e-4 rad.         *)
(***************************************************************************)
Pi == 31416

\* initialAngle * (Math.PI / 180)
Radians(deg) == Quot(deg * Pi, 180)

\* Math.sin, by its Taylor polynomial to the 7th power on [-Pi/2, Pi/2]
\* after reduction of the angle to that interval; result in 1e-4
Sin(x) ==
    LET w == ((x + Pi) % (2 * Pi)) - Pi
        z == IF 2 * w > Pi THEN Pi - w
             ELSE IF 2 * w < -Pi THEN -Pi - w ELSE w
        z2 == Quot(z * z, 10000)
        t3 == 10000 - Quot(z2, 42)
        t2 == 10000 - Quot(z2 * t3, 200000)
        t1 == 10000 - Quot(z2 * t2, 60000)
    IN  Quot(z * t1, 10000)

(***************************************************************************)
(* Pendulum driven by the wall clock (PendulumSwingSimulationComponent).   *)
(***************************************************************************)
PendulumInit(len, g, deg, dmp) ==
    [length |-> len, gravity |-> g, initialAngle |-> deg, damping |-> dmp,
     angle |-> Radians(deg), angularVelocity |-> 0, isSwinging |-> FALSE,
     animationFrame |-> 0, lastTime |-> 0]

\* a measured dt above this is skipped: 0.05 s
PendulumClamp == 150

\* -(gravity / lengthMeters) * sin(angle) - damping * angularVelocity
PendulumAcceleration(p) ==
    -Quot(p.gravity * Sin(p.angle), p.length)
        - Quot(p.damping * p.angularVelocity, 10000)

\* the integration step of simulate
PendulumIntegrate(p, dt) ==
    LET w == p.angularVelocity + Quot(PendulumAcceleration(p) * dt, UnitsPerSecond)
    IN  [p EXCEPT !.angularVelocity = w,
                  !.angle = @ + Quot(w * dt, UnitsPerSecond)]

\* what simulate does with a measured dt above the clamp
PendulumSkip_ClampAndApply(p, dt) == PendulumIntegrate(p, PendulumClamp)

PendulumSkip(p, dt) == p

\* simulate() on a swinging pendulum at clock reading t, scheduling frame h
PendulumSimulate(p, t, h) ==
    LET dt == t - p.lastTime
        q == [p EXCEPT !.lastTime = t, !.animationFrame = h]
    IN  IF dt > PendulumClamp THEN PendulumSkip(q, dt)
        ELSE PendulumIntegrate(q, dt)

\* startSwing up to its call of simulate
PendulumStarted(p, t) ==
    [p EXCEPT !.angle = Radians(p.initialAngle), !.angularVelocity = 0,
              !.isSwinging = TRUE, !.lastTime = t]

PendulumStartSwing ==
    /\ mounted = "pendulum"
    /\ \E e \in InHandlerDelays :
        LET cancelled == cancelAnimationFrame(frames, view.animationFrame)
            h == NewHandle(view.animationFrame)
        IN  /\ now + e <= MaxNow
            /\ now' = now + e
            /\ view' = PendulumSimulate(PendulumStarted(view, now), now', h)
            /\ frames' = requestAnimationFrame(cancelled, h, "simulate", 0)
            /\ event' = [op |-> "start", dt |-> e, applied |-> e <= PendulumClamp]
    /\ UNCHANGED mounted

PendulumStopSwing ==
    /\ mounted = "pendulum"
    /\ view' = [view EXCEPT !.isSwinging = FALSE]
    /\ frames' = cancelAnimationFrame(frames, view.animationFrame)
    /\ event' = [op |-> "stop", dt |-> 0, applied |-> FALSE]
    /\ UNCHANGED <<mounted, now>>

PendulumTick ==
    /\ mounted = "pendulum"
    /\ \E f \in frames, d \in FrameIntervals :
        /\ f.fn = "simulate"
        /\ now + d <= MaxNow
        /\ now' = now + d
        /\ IF ~view.isSwinging
           THEN /\ frames' = frames \ {f}
                /\ UNCHANGED view
                /\ event' = [op |-> "tick", dt |-> 0, applied |-> FALSE]
           ELSE LET h == NewHandle(view.animationFrame)
                    dt == now' - view.lastTime
                IN  /\ view' = PendulumSimulate(view, now', h)
                    /\ frames' = requestAnimationFrame(frames \ {f}, h, "simulate", 0)
                    /\ event' = [op |-> "tick", dt |-> dt,
                                 applied |-> dt <= PendulumClamp]
    /\ UNCHANGED mounted

\* a tick one steady frame after the previous clock reading, the origin of
\* the clock moved to that reading
PendulumSteadyTick ==
    /\ mounted = "pendulum"
    /\ \E f \in frames :
        /\ f.fn = "simulate"
        /\ now' = SteadyFrame
        /\ IF ~view.isSwinging
           THEN /\ frames' = frames \ {f}
                /\ UNCHANGED view
                /\ event' = [op |-> "tick", dt |-> 0, applied |-> FALSE]
           ELSE LET h == NewHandle(view.animationFrame)
                IN  /\ view' = PendulumSimulate([view EXCEPT !.lastTime = 0],
                                                SteadyFrame, h)
                    /\ frames' = requestAnimationFrame(frames \ {f}, h,
                                                       "simulate", 0)
                    /\ event' = [op |-> "tick", dt |-> SteadyFrame,
                                 applied |-> SteadyFrame <= PendulumClamp]
    /\ UNCHANGED mounted

\* updateAnglePreview without its test of isSwinging
updateAnglePreview_Always(p) ==
    [p EXCEPT !.angle = Radians(p.initialAngle), !.angularVelocity = 0]

\* updateAnglePreview, the same in both pendulum components that have it
updateAnglePreview(p) ==
    IF ~p.isSwinging
    THEN [p EXCEPT !.angle = Radians(p.initialAngle), !.angularVelocity = 0]
    ELSE p

\* positions the initial-angle slider is moved to, in degrees
PreviewAngles == {-30, 45}

\* the initial-angle slider moved: v-model writes initialAngle, then the
\* input handler runs
PendulumAngleInput ==
    /\ mounted = "pendulum"
    /\ \E a \in PreviewAngles :
          view' = updateAnglePreview([view EXCEPT !.initialAngle = a])
    /\ event' = [op |-> "input", dt |-> 0, applied |-> FALSE]
    /\ UNCHANGED <<mounted, now, frames>>

PendulumNext ==
    \/ PendulumStartSwing
    \/ PendulumStopSwing
    \/ PendulumTick

(***************************************************************************)
(* Pendulum, the component without an angle preview (second script of      *)
(* PendulumSwingSimulationComponent.vue; the pendulum of unnamed/part_001  *)
(* has the same simulate).  State and units as above.                      *)
(***************************************************************************)
\* a measured dt above this is skipped: 0.1 s
Pendulum2Clamp == 300

\* -(gravity / 100) / (length / 100) * sin(angle) - damping * angularVelocity
Pendulum2Acceleration(p) ==
    -Quot(Quot(p.gravity * Sin(p.angle), 100), p.length)
        - Quot(p.damping * p.angularVelocity, 10000)

\* the integration step of simulate
Pendulum2Integrate(p, dt) ==
    LET w == p.angularVelocity + Quot(Pendulum2Acceleration(p) * dt, UnitsPerSecond)
    IN  [p EXCEPT !.angularVelocity = w,
                  !.angle = @ + Quot(w * dt, UnitsPerSecond)]

\* simulate() on a swinging pendulum at clock reading t, scheduling frame h
Pendulum2Simulate(p, t, h) ==
    LET dt == t - p.lastTime
        q == [p EXCEPT !.lastTime = t, !.animationFrame = h]
    IN  IF dt > Pendulum2Clamp THEN q ELSE Pendulum2Integrate(q, dt)

Pendulum2StartSwing ==
    /\ mounted = "pendulum2"
    /\ \E e \in InHandlerDelays :
        LET cancelled == cancelAnimationFrame(frames, view.animationFrame)
            h == NewHandle(view.animationFrame)
        IN  /\ now + e <= MaxNow
            /\ now' = now + e
            /\ view' = Pendulum2Simulate(PendulumStarted(view, now), now', h)
            /\ frames' = requestAnimationFrame(cancelled, h, "simulate", 0)
            /\ event' = [op |-> "start", dt |-> e, applied |-> e <= Pendulum2Clamp]
    /\ UNCHANGED mounted

Pendulum2StopSwing ==
    /\ mounted = "pendulum2"
    /\ view' = [view EXCEPT !.isSwinging = FALSE]
    /\ frames' = cancelAnimationFrame(frames, view.animationFrame)
    /\ event' = [op |-> "stop", dt |-> 0, applied |-> FALSE]
    /\ UNCHANGED <<mounted, now>>

Pendulum2Tick ==
    /\ mounted = "pendulum2"
    /\ \E f \in frames, d \in FrameIntervals :
        /\ f.fn = "simulate"
        /\ now + d <= MaxNow
        /\ now' = now + d
        /\ IF ~view.isSwinging
           THEN /\ frames' = frames \ {f}
                /\ UNCHANGED view
                /\ event' = [op |-> "tick", dt |-> 0, applied |-> FALSE]
           ELSE LET h == NewHandle(view.animationFrame)
                    dt == now' - view.lastTime
                IN  /\ view' = Pendulum2Simulate(view, now', h)
                    /\ frames' = requestAnimationFrame(frames \ {f}, h, "simulate", 0)
                    /\ event' = [op |-> "tick", dt |-> dt,
                                 applied |-> dt <= Pendulum2Clamp]
    /\ UNCHANGED mounted

Pendulum2Next ==
    \/ Pendulum2StartSwing
    \/ Pendulum2StopSwing
    \/ Pendulum2Tick

(***************************************************************************)
(* Pendulum with a fixed 1/60 s step and an accumulator (part_002).        *)
(***************************************************************************)
SwingInit(len, g, deg, dmp) ==
    [length |-> len, gravity |-> g, initialAngle |-> deg, damping |-> dmp,
     angle |-> Radians(deg), angularVelocity |-> 0, isSwinging |-> FALSE,
     animationFrame |-> 0, lastTime |-> 0, accumulatedTime |-> 0]

\* 1 / 60 s
fixedTimeStep == 50

\* one pass of the body of the while loop of simulate
SwingFixedStep(p) ==
    LET w == p.angularVelocity
                + Quot(PendulumAcceleration(p) * fixedTimeStep, UnitsPerSecond)
    IN  [p EXCEPT !.angle = @ + Quot(Quot((p.angularVelocity + w) * fixedTimeStep, 2),
                                     UnitsPerSecond),
                  !.angularVelocity = w,
                  !.accumulatedTime = @ - fixedTimeStep]

\* the while loop of simulate taken as an if: at most one pass
SwingDrain_Once(p) ==
    IF p.accumulatedTime >= fixedTimeStep THEN SwingFixedStep(p) ELSE p

RECURSIVE SwingDrain(_)
SwingDrain(p) ==
    IF p.accumulatedTime >= fixedTimeStep THEN SwingDrain(SwingFixedStep(p))
    ELSE p

\* k passes of the body of the while loop
RECURSIVE SwingSteps(_, _)
SwingSteps(p, k) == IF k = 0 THEN p ELSE SwingSteps(SwingFixedStep(p), k - 1)

\* simulate(timestamp) on a swinging pendulum, scheduling frame h
SwingSimulate(p, timestamp, h) ==
    LET last == IF p.lastTime = 0 THEN timestamp ELSE p.lastTime
        deltaTime == timestamp - last
    IN  [SwingDrain([p EXCEPT !.lastTime = timestamp,
                              !.accumulatedTime = @ + deltaTime])
            EXCEPT !.animationFrame = h]

SwingStartSwing ==
    /\ mounted = "swing"
    /\ IF view.isSwinging
       THEN UNCHANGED <<view, frames>>
       ELSE LET h == NewHandle(view.animationFrame) IN
            /\ view' = [view EXCEPT !.angle = Radians(view.initialAngle),
                                    !.angularVelocity = 0, !.isSwinging = TRUE,
                                    !.lastTime = 0, !.accumulatedTime = 0,
                                    !.animationFrame = h]
            /\ frames' = requestAnimationFrame(
                             cancelAnimationFrame(frames, view.animationFrame),
                             h, "simulate", 0)
    /\ event' = [op |-> "start", dt |-> 0, applied |-> FALSE]
    /\ UNCHANGED <<mounted, now>>

SwingStopSwing ==
    /\ mounted = "swing"
    /\ view' = [view EXCEPT !.isSwinging = FALSE]
    /\ frames' = cancelAnimationFrame(frames, view.animationFrame)
    /\ event' = [op |-> "stop", dt |-> 0, applied |-> FALSE]
    /\ UNCHANGED <<mounted, now>>

SwingTick ==
    /\ mounted = "swing"
    /\ \E f \in frames, d \in FrameIntervals :
        /\ f.fn = "simulate"
        /\ now + d <= MaxNow
        /\ now' = now + d
        /\ IF ~view.isSwinging
           THEN /\ frames' = frames \ {f}
                /\ UNCHANGED view
                /\ event' = [op |-> "tick", dt |-> 0, applied |-> FALSE]
           ELSE LET h == NewHandle(view.animationFrame)
                    acc == view.accumulatedTime + now'
                             - (IF view.lastTime = 0 THEN now' ELSE view.lastTime)
                IN  /\ view' = SwingSimulate(view, now', h)
                    /\ frames' = requestAnimationFrame(frames \ {f}, h, "simulate", 0)
                    /\ event' = [op |-> "tick", dt |-> fixedTimeStep,
                                 applied |-> acc >= fixedTimeStep]
    /\ UNCHANGED mounted

\* the initial-angle slider of the accumulator pendulum moved
SwingAngleInput ==
    /\ mounted = "swing"
    /\ \E a \in PreviewAngles :
          view' = updateAnglePreview([view EXCEPT !.initialAngle = a])
    /\ event' = [op |-> "input", dt |-> 0, applied |-> FALSE]
    /\ UNCHANGED <<mounted, now, frames>>

SwingNext ==
    \/ SwingStartSwing
    \/ SwingStopSwing
    \/ SwingTick

(***************************************************************************)
(* Ball drop (BallDropComponent.vue).  ballY and velocity in 1e-3 px (the  *)
(* velocity is added to ballY once per tick), weight in 0.1 kg, gravity in *)
(* 0.1 m/s^2.  The component never reads the clock.                        *)
(***************************************************************************)
BallDropInit(w, g, size) ==
    [weight |-> w, gravity |-> g, ballSize |-> size,
     ballY |-> 0, velocity |-> 0, isDropping |-> FALSE, animationFrame |-> 0]

\* maxDrop, px
BallMaxDrop == 393

\* |velocity| below this after a bounce ends the run: 1 px per tick
BallRestSpeed == 1000

\* velocity after a ground contact: -velocity * damping, damping = 0.7
BallBounce(v) == -Quot(v * 7, 10)

\* the velocity stored when the rest condition ends the run
BallRestVelocity(v) == v

\* simulate() on a dropping ball; scheduled tells whether it asked for a frame
BallSimulate(b, h) ==
    LET v1 == b.velocity + Quot(b.gravity * b.weight * 16, 100)
        y1 == b.ballY + v1
        maxY == (BallMaxDrop - b.ballSize) * 1000
        v2 == BallBounce(v1)
    IN  IF y1 >= maxY
        THEN IF Abs(v2) < BallRestSpeed
             THEN [state |-> [b EXCEPT !.ballY = maxY,
                                       !.velocity = BallRestVelocity(v2),
                                       !.isDropping = FALSE],
                   scheduled |-> FALSE]
             ELSE [state |-> [b EXCEPT !.ballY = maxY, !.velocity = v2,
                                       !.animationFrame = h],
                   scheduled |-> TRUE]
        ELSE [state |-> [b EXCEPT !.ballY = y1, !.velocity = v1,
                                  !.animationFrame = h],
              scheduled |-> TRUE]

\* startDrop up to its call of simulate
BallStarted(b) == [b EXCEPT !.ballY = 0, !.velocity = 0, !.isDropping = TRUE]

BallStartDrop ==
    /\ mounted = "ballDrop"
    /\ LET cancelled == cancelAnimationFrame(frames, view.animationFrame)
           h == NewHandle(view.animationFrame)
           r == BallSimulate(BallStarted(view), h)
       IN  /\ view' = r.state
           /\ frames' = IF r.scheduled
                        THEN requestAnimationFrame(cancelled, h, "simulate", 0)
                        ELSE cancelled
    /\ event' = [op |-> "start", dt |-> 16, applied |-> TRUE]
    /\ UNCHANGED <<mounted, now>>

BallTick ==
    /\ mounted = "ballDrop"
    /\ \E f \in frames :
        /\ f.fn = "simulate"
        /\ IF ~view.isDropping
           THEN /\ frames' = frames \ {f}
                /\ UNCHANGED view
                /\ event' = [op |-> "tick", dt |-> 0, applied |-> FALSE]
           ELSE LET h == NewHandle(view.animationFrame)
                    r == BallSimulate(view, h)
                IN  /\ view' = r.state
                    /\ frames' = IF r.scheduled
                                 THEN requestAnimationFrame(frames \ {f}, h,
                                                            "simulate", 0)
                                 ELSE frames \ {f}
                    /\ event' = [op |-> "tick", dt |-> 16, applied |-> TRUE]
    /\ UNCHANGED <<mounted, now>>

BallNext ==
    \/ BallStartDrop
    \/ BallTick

(***************************************************************************)
(* Drop with air drag (DropSimulationComponent.vue).  ballY in 0.1 px,     *)
(* velocity in 0.1 px/s = 1e-3 m/s, forces in mN, weight in 0.1 kg,        *)
(* gravity in 0.1 m/s^2, air density in 1e-3 kg/m^3, drag coefficient in   *)
(* 0.01.  The clock is read for logging only.                              *)
(***************************************************************************)
DropInit(w, g, size, rho, cd) ==
    [weight |-> w, gravity |-> g, objectSize |-> size,
     airDensity |-> rho, dragCoefficient |-> cd,
     ballY |-> 0, velocity |-> 0, isDropping |-> FALSE, animationFrame |-> 0]

\* maxDrop = 393.5 px
DropMaxDrop == 3935

\* 0.5 * mToPx px/s
DropRestSpeed == 500

\* F_drag = 0.5 * rho * v^2 * C_d * A, against the motion; A in cm^2
DropDragForce(b) ==
    LET crossSectionArea == Quot(Pi * b.objectSize * b.objectSize, 40000)
        k == Quot(Quot(b.airDensity * b.dragCoefficient, 2) * crossSectionArea,
                  1000000)
        dragForce == Quot(k * Quot(b.velocity * b.velocity, 1000), 1000)
        dragDirection == IF b.velocity > 0 THEN -1
                         ELSE IF b.velocity < 0 THEN 1 ELSE 0
    IN  dragForce * dragDirection

\* a ground that returns more speed than it receives
DropBounce_Amplified(v) == -Quot(v * 12, 10)

\* velocity after a ground contact: -velocity * restitution, restitution = 0.8
DropBounce(v) == -Quot(v * 8, 10)

\* the velocity stored when the rest condition ends the run
DropRestVelocity(v) == 0

DropSimulate(b, h) ==
    LET gForce == b.gravity * b.weight * 10
        totalForce == gForce + DropDragForce(b)
        v1 == b.velocity + Quot(Quot(totalForce * 10, b.weight) * 16, 1000)
        y1 == b.ballY + Quot(v1 * 16, 1000)
        maxY == DropMaxDrop - b.objectSize * 10
        v2 == DropBounce(v1)
    IN  IF y1 >= maxY
        THEN IF Abs(v2) < DropRestSpeed
             THEN [state |-> [b EXCEPT !.ballY = maxY,
                                       !.velocity = DropRestVelocity(v2),
                                       !.isDropping = FALSE],
                   scheduled |-> FALSE]
             ELSE [state |-> [b EXCEPT !.ballY = maxY, !.velocity = v2,
                                       !.animationFrame = h],
                   scheduled |-> TRUE]
        ELSE [state |-> [b EXCEPT !.ballY = y1, !.velocity = v1,
                                  !.animationFrame = h],
              scheduled |-> TRUE]

\* startDrop up to its call of simulate
DropStarted(b) == [b EXCEPT !.ballY = 0, !.velocity = 0, !.isDropping = TRUE]

DropStartDrop ==
    /\ mounted = "dropSimulation"
    /\ LET cancelled == cancelAnimationFrame(frames, view.animationFrame)
           h == NewHandle(view.animationFrame)
           r == DropSimulate(DropStarted(view), h)
       IN  /\ view' = r.state
           /\ frames' = IF r.scheduled
                        THEN requestAnimationFrame(cancelled, h, "simulate", 0)
                        ELSE cancelled
    /\ event' = [op |-> "start", dt |-> 16, applied |-> TRUE]
    /\ UNCHANGED <<mounted, now>>

DropTick ==
    /\ mounted = "dropSimulation"
    /\ \E f \in frames :
        /\ f.fn = "simulate"
        /\ IF ~view.isDropping
           THEN /\ frames' = frames \ {f}
                /\ UNCHANGED view
                /\ event' = [op |-> "tick", dt |-> 0, applied |-> FALSE]
           ELSE LET h == NewHandle(view.animationFrame)
                    r == DropSimulate(view, h)
                IN  /\ view' = r.state
                    /\ frames' = IF r.scheduled
                                 THEN requestAnimationFrame(frames \ {f}, h,
                                                            "simulate", 0)
                                 ELSE frames \ {f}
                    /\ event' = [op |-> "tick", dt |-> 16, applied |-> TRUE]
    /\ UNCHANGED <<mounted, now>>

DropNext ==
    \/ DropStartDrop
    \/ DropTick

(***************************************************************************)
(* Projectile advanced step by step (unnamed/part_006).  Lengths in mm,    *)
(* speeds in mm/s, g in mm/s^2, the gravity multiplier in 0.1, posX and    *)
(* posY in 1e-3 px (pxPerMeter = 5).  Every call of simulate makes a step  *)
(* closure of its own, holding t, x0, y0, vx and vy0.                      *)
(***************************************************************************)
\* Math.cos
Cos(x) == Sin(Quot(Pi, 2) - x)

ProjectileInit(angle, velocity, height, gm) ==
    [g |-> 9810, launchAngle |-> angle, launchVelocity |-> velocity,
     initialHeight |-> height, gravityMultiplier |-> gm,
     posX |-> 0, posY |-> 0, pathPoints |-> <<>>, isRunning |-> FALSE,
     animationFrame |-> 0, lastTime |-> 0]

pxPerMeter == 5

\* the closure simulate(x0, y0, velocity, angleDeg) creates
ProjectileClosure(x0, y0, velocity, angleDeg) ==
    [t |-> 0, x0 |-> x0, y0 |-> y0,
     vx |-> Quot(velocity * Cos(Radians(angleDeg)), 10000),
     vy0 |-> Quot(velocity * Sin(Radians(angleDeg)), 10000)]

\* what startSimulation does to the previous run's callback
ProjectileSupersede(fs, h) == fs

\* startSimulation up to its call of simulate, at clock reading t
ProjectileStarted(p, t) ==
    [p EXCEPT !.isRunning = TRUE, !.posX = 0,
              !.posY = p.initialHeight * pxPerMeter,
              !.pathPoints = <<>>, !.lastTime = t]

\* callbacks one page can have pending in the model
MaxFrames == 2

ProjectileStartSimulation ==
    /\ mounted = "projectile"
    /\ Cardinality(frames) < MaxFrames
    /\ LET h == NewHandle(view.animationFrame)
       IN  /\ view' = [ProjectileStarted(view, now) EXCEPT !.animationFrame = h]
           /\ frames' = requestAnimationFrame(
                            ProjectileSupersede(frames, view.animationFrame),
                            h, "step",
                            ProjectileClosure(0, view.initialHeight,
                                              view.launchVelocity,
                                              view.launchAngle))
    /\ event' = [op |-> "start", dt |-> 0, applied |-> FALSE]
    /\ UNCHANGED <<mounted, now>>

\* height y0 + vy0 * t - 0.5 * g * t * t of closure c at its time t
ProjectileHeight(c, g, t) ==
    c.y0 + Quot(c.vy0 * t, UnitsPerSecond)
         - Quot(Quot(g * t, UnitsPerSecond) * t, 2 * UnitsPerSecond)

\* one run of a step closure, popped from the queue, at clock reading t
ProjectileStep ==
    /\ mounted = "projectile"
    /\ \E f \in frames, d \in FrameIntervals :
        /\ f.fn = "step"
        /\ now + d <= MaxNow
        /\ now' = now + d
        /\ LET dt == Quot((now' - view.lastTime) * view.gravityMultiplier, 10)
               t == f.env.t + dt
               x == f.env.x0 + Quot(f.env.vx * t, UnitsPerSecond)
               y == ProjectileHeight(f.env, view.g, t)
               h == NewHandle(view.animationFrame)
           IN  /\ IF y < 0
                  THEN /\ view' = [view EXCEPT !.lastTime = now',
                                               !.isRunning = FALSE]
                       /\ frames' = cancelAnimationFrame(frames \ {f},
                                                         view.animationFrame)
                  ELSE /\ view' = [view EXCEPT
                                     !.lastTime = now',
                                     !.posX = x * pxPerMeter,
                                     !.posY = y * pxPerMeter,
                                     !.pathPoints = Append(@,
                                         [x |-> x * pxPerMeter,
                                          y |-> y * pxPerMeter]),
                                     !.animationFrame = h]
                       /\ frames' = requestAnimationFrame(frames \ {f}, h,
                                        "step", [f.env EXCEPT !.t = t])
               /\ event' = [op |-> "tick", dt |-> dt, applied |-> TRUE]
    /\ UNCHANGED mounted

ProjectileNext ==
    \/ ProjectileStartSimulation
    \/ ProjectileStep

(***************************************************************************)
(* Projectile placed by the closed-form trajectory (unnamed/part_005).     *)
(* Units as for the stepped projectile; startTime and the flight time in   *)
(* 1/3000 s.  The step closure made by simulate holds vx and vy0; it reads *)
(* initialHeight, g, gravityMultiplier and totalFlightTime when it runs.   *)
(***************************************************************************)
BallisticInit(angle, velocity, height, gm) ==
    [g |-> 9810, launchAngle |-> angle, launchVelocity |-> velocity,
     initialHeight |-> height, gravityMultiplier |-> gm,
     posX |-> 0, posY |-> height * pxPerMeter, pathPoints |-> <<>>,
     isRunning |-> FALSE, animationFrame |-> 0, startTime |-> 0]

\* Math.sqrt, rounded down: the root of n that lies in lo..hi, by bisection;
\* the midpoint is bound as an element of a singleton set, so that it is
\* computed once
RECURSIVE SqrtIn(_, _, _)
SqrtIn(n, lo, hi) ==
    IF lo >= hi THEN lo
    ELSE CHOOSE r \in {IF mid * mid <= n THEN SqrtIn(n, mid, hi)
                       ELSE SqrtIn(n, lo, mid - 1) :
                       mid \in {(lo + hi + 1) \div 2}} : TRUE

Sqrt(n) == CHOOSE r \in {SqrtIn(m, 0, 46340) : m \in {n}} : TRUE

\* launchVelocity * Math.cos(angleRad), launchVelocity * Math.sin(angleRad)
BallisticVx(b) == Quot(b.launchVelocity * Cos(Radians(b.launchAngle)), 10000)

BallisticVy(b) == Quot(b.launchVelocity * Sin(Radians(b.launchAngle)), 10000)

\* totalFlightTime = (vy + sqrt(vy * vy + 2 * g * initialHeight)) / g
totalFlightTime(b) ==
    LET vy == BallisticVy(b)
    IN  Quot((vy + Sqrt(vy * vy + 2 * b.g * b.initialHeight)) * UnitsPerSecond,
             b.g)

\* horizontalRange = vx * totalFlightTime
horizontalRange(b) == Quot(BallisticVx(b) * totalFlightTime(b), UnitsPerSecond)

\* landingX
landingX(b) == horizontalRange(b) * pxPerMeter

\* startSimulation at clock reading t, up to its requestAnimationFrame
BallisticStarted(b, t) ==
    [b EXCEPT !.isRunning = TRUE, !.posX = 0,
              !.posY = b.initialHeight * pxPerMeter,
              !.pathPoints = <<[x |-> 0, y |-> b.initialHeight * pxPerMeter]>>,
              !.startTime = t]

\* the frames left and the state after startSimulation() in state b with
\* pending frames fs
BallisticRestarted(b, fs, t) ==
    LET h == NewHandle(b.animationFrame)
    IN  [state |-> [BallisticStarted(b, t) EXCEPT !.animationFrame = h],
         frames |-> requestAnimationFrame(
                        IF b.isRunning
                        THEN cancelAnimationFrame(fs, b.animationFrame)
                        ELSE fs,
                        h, "step", [vx |-> BallisticVx(b), vy0 |-> BallisticVy(b)])]

BallisticStartSimulation ==
    /\ mounted = "ballistic"
    /\ LET r == BallisticRestarted(view, frames, now)
       IN  /\ view' = r.state
           /\ frames' = r.frames
    /\ event' = [op |-> "start", dt |-> 0, applied |-> FALSE]
    /\ UNCHANGED <<mounted, now>>

\* the part of step that places the projectile at elapsedTime and extends
\* the path
BallisticPlaced(b, c, elapsedTime) ==
    LET x == Quot(c.vx * elapsedTime, UnitsPerSecond)
        y == ProjectileHeight([y0 |-> b.initialHeight, vy0 |-> c.vy0],
                              b.g, elapsedTime)
        px == x * pxPerMeter
        py == (IF y > 0 THEN y ELSE 0) * pxPerMeter
        n == Len(b.pathPoints)
        push == \/ n < 2
                \/ Abs(px - b.pathPoints[n].x) > 5000
                \/ Abs(py - b.pathPoints[n].y) > 5000
    IN  [b EXCEPT !.posX = px, !.posY = py,
                  !.pathPoints = IF push THEN Append(@, [x |-> px, y |-> py])
                                 ELSE @]

\* the landing branch of step without its effect
BallisticLanded_Flying(b) == b

\* the landing branch of step
BallisticLanded(b) ==
    [b EXCEPT !.posX = landingX(b), !.posY = 0,
              !.pathPoints = Append(@, [x |-> landingX(b), y |-> 0]),
              !.isRunning = FALSE]

\* step(timestamp) of closure c in state b
BallisticElapsed(b, timestamp) ==
    LET scaled == Quot((timestamp - b.startTime) * b.gravityMultiplier, 10)
    IN  IF scaled < totalFlightTime(b) THEN scaled ELSE totalFlightTime(b)

\* one run of the step closure f at clock reading t; elapsedTime and the
\* placed state are bound as elements of singleton sets, to be computed once
BallisticStepped(f, t) ==
    \E elapsedTime \in {BallisticElapsed(view, t)} :
    \E placed \in {BallisticPlaced(view, f.env, elapsedTime)} :
    \E landing \in {elapsedTime >= totalFlightTime(view)} :
        LET h == NewHandle(view.animationFrame)
        IN  /\ IF landing
               THEN /\ view' = BallisticLanded(placed)
                    /\ frames' = frames \ {f}
               ELSE IF placed.isRunning
               THEN /\ view' = [placed EXCEPT !.animationFrame = h]
                    /\ frames' = requestAnimationFrame(frames \ {f}, h, "step", f.env)
               ELSE /\ view' = placed
                    /\ frames' = frames \ {f}
            /\ event' = [op |-> "tick", dt |-> elapsedTime, applied |-> TRUE]

BallisticStep ==
    /\ mounted = "ballistic"
    /\ \E f \in frames, d \in FrameIntervals :
        /\ f.fn = "step"
        /\ now + d <= MaxNow
        /\ now' = now + d
        /\ BallisticStepped(f, now')
    /\ UNCHANGED mounted

\* values the three watched sliders are moved to
BallisticAngles == {10, 30}

BallisticVelocities == {1000, 2000}

BallisticHeights == {0, 100}

\* the sliders written, the watch callback doing nothing
BallisticWatch_Ignored(old, b, fs, t) == [state |-> b, frames |-> fs]

\* the callback of watch([launchAngle, launchVelocity, initialHeight]) after
\* the sliders were moved from the values of old to those of b
BallisticWatch(old, b, fs, t) ==
    LET r == IF b.isRunning THEN BallisticRestarted(b, fs, t)
             ELSE [state |-> b, frames |-> fs]
    IN  [state |-> IF b.initialHeight # old.initialHeight
                   THEN [r.state EXCEPT !.posY = b.initialHeight * pxPerMeter]
                   ELSE r.state,
         frames |-> r.frames]

\* one of the watched sliders moved to another value
BallisticParameterInput ==
    /\ mounted = "ballistic"
    /\ \E a \in BallisticAngles, v \in BallisticVelocities, h \in BallisticHeights :
        LET b == [view EXCEPT !.launchAngle = a, !.launchVelocity = v,
                              !.initialHeight = h]
            changed == Cardinality({i \in 1..3 :
                           <<a, v, h>>[i] # <<view.launchAngle, view.launchVelocity,
                                              view.initialHeight>>[i]})
            r == BallisticWatch(view, b, frames, now)
        IN  /\ changed = 1
            /\ view' = r.state
            /\ frames' = r.frames
    /\ event' = [op |-> "input", dt |-> 0, applied |-> FALSE]
    /\ UNCHANGED <<mounted, now>>

BallisticNext ==
    \/ BallisticStartSimulation
    \/ BallisticStep
    \/ BallisticParameterInput

(***************************************************************************)
(* Friction slider (FrictionSliderSimulationComponent.vue, the box that    *)
(* bounces off the ends of the track).  velocity in 1e-4 m/s = 0.01 px/s,  *)
(* positionX in 1e-3 px, forces in 1e-4 N, mass in 0.1 kg, gravity in      *)
(* 0.1 m/s^2, the friction and drag coefficients in 0.01, air density in   *)
(* 1e-3 kg/m^3, the box and the track in px.  simulate reads the clock     *)
(* itself.                                                                 *)
(***************************************************************************)
SliderInit(m, g, mu, v0, rho) ==
    [mass |-> m, gravity |-> g, kineticFriction |-> mu,
     initialVelocity |-> v0, objectWidth |-> 80, objectHeight |-> 40,
     airDensity |-> rho, dragCoefficient |-> 105, maxDistance |-> 700,
     positionX |-> 0, velocity |-> v0, isSliding |-> FALSE,
     animationFrame |-> 0, lastTime |-> 0, totalBounces |-> 0]

\* dt > 0.1 is not integrated
SliderClamp == 300

\* |newVelocityMs| <= 0.01 ends the run
SliderRestSpeed == 100

\* friction plus drag, 0.5 * rho * v^2 * C_d * A with A in cm^2
SliderTotalForce(b) ==
    LET frictionForce == b.kineticFriction * b.mass * b.gravity
        frontalArea == b.objectHeight * b.objectWidth
        k == Quot(Quot(b.airDensity * b.dragCoefficient, 2) * frontalArea,
                  1000000)
        velocityMs == Quot(b.velocity, 10)
        dragForce == Quot(k * Quot(velocityMs * velocityMs, 100), 1000)
    IN  frictionForce + dragForce

\* the velocity after dt
SliderNewVelocity(b, dt) ==
    LET direction == IF b.velocity > 0 THEN -1 ELSE 1
        acceleration == Quot(SliderTotalForce(b) * direction * 10, b.mass)
    IN  b.velocity + Quot(acceleration * dt, UnitsPerSecond)

\* the step of simulate for a dt within the clamp: move, bounce, rest
SliderIntegrate(b, dt) ==
    LET newVelocity == SliderNewVelocity(b, dt)
        moved == b.positionX + Quot(Quot(b.velocity + newVelocity, 2) * dt, 300)
        rightEdge == moved + b.objectWidth * 1000
        atRight == rightEdge >= b.maxDistance * 1000
        atLeft == ~atRight /\ moved <= 0
        c == [b EXCEPT
                !.positionX = IF atRight
                              THEN (b.maxDistance - b.objectWidth) * 1000
                              ELSE IF atLeft THEN 0 ELSE moved,
                !.velocity = IF atRight THEN -Quot(Abs(newVelocity), 2)
                             ELSE IF atLeft THEN Quot(Abs(newVelocity), 2)
                             ELSE newVelocity,
                !.totalBounces = IF atRight \/ atLeft THEN @ + 1 ELSE @]
    IN  IF Abs(newVelocity) <= SliderRestSpeed
        THEN [c EXCEPT !.velocity = 0, !.isSliding = FALSE]
        ELSE c

\* the branch of simulate for a dt over the clamp
SliderSkip(b, dt) == b

\* simulate() on a sliding box at clock reading t; a frame h is requested
\* unless the run came to rest
SliderSimulate(b, t, h) ==
    LET dt == t - b.lastTime
        q == [b EXCEPT !.lastTime = t]
        r == IF dt > SliderClamp THEN SliderSkip(q, dt)
             ELSE SliderIntegrate(q, dt)
    IN  IF r.isSliding THEN [r EXCEPT !.animationFrame = h] ELSE r

\* startSlide up to its call of simulate, at clock reading t
SliderStarted(b, t) ==
    [b EXCEPT !.positionX = 0, !.velocity = b.initialVelocity,
              !.isSliding = TRUE, !.lastTime = t, !.totalBounces = 0]

\* the effects of one call of simulate from state b that leaves state r
SliderRan(op, b, r, fs) ==
    /\ view' = r
    /\ frames' = IF r.isSliding
                 THEN requestAnimationFrame(fs, r.animationFrame,
                                            "simulate", 0)
                 ELSE fs
    /\ event' = [op |-> op, dt |-> r.lastTime - b.lastTime,
                 applied |-> r.lastTime - b.lastTime <= SliderClamp]

SliderStartSlide ==
    /\ mounted = "slider"
    /\ \E e \in InHandlerDelays :
        LET b == SliderStarted(view, now)
        IN  /\ now + e <= MaxNow
            /\ now' = now + e
            /\ SliderRan("start", b,
                         SliderSimulate(b, now', NewHandle(view.animationFrame)),
                         cancelAnimationFrame(frames, view.animationFrame))
    /\ UNCHANGED mounted

SliderTick ==
    /\ mounted = "slider"
    /\ \E f \in frames, d \in FrameIntervals :
        /\ f.fn = "simulate"
        /\ now + d <= MaxNow
        /\ now' = now + d
        /\ IF ~view.isSliding
           THEN /\ frames' = frames \ {f}
                /\ UNCHANGED view
                /\ event' = [op |-> "tick", dt |-> 0, applied |-> FALSE]
           ELSE SliderRan("tick", view,
                          SliderSimulate(view, now',
                                         NewHandle(view.animationFrame)),
                          frames \ {f})
    /\ UNCHANGED mounted

\* a tick one steady frame after the previous clock reading.  The component
\* uses clock readings only through their difference, so the origin of the
\* clock is moved to the previous reading: lastTime = 0, now = SteadyFrame
SliderSteadyTick ==
    /\ mounted = "slider"
    /\ \E f \in frames :
        /\ f.fn = "simulate"
        /\ now' = SteadyFrame
        /\ IF ~view.isSliding
           THEN /\ frames' = frames \ {f}
                /\ UNCHANGED view
                /\ event' = [op |-> "tick", dt |-> 0, applied |-> FALSE]
           ELSE LET b == [view EXCEPT !.lastTime = 0]
                IN  SliderRan("tick", b,
                              SliderSimulate(b, SteadyFrame,
                                             NewHandle(view.animationFrame)),
                              frames \ {f})
    /\ UNCHANGED mounted

SliderNext ==
    \/ SliderStartSlide
    \/ SliderTick

(***************************************************************************)
(* Friction slider with an end stop (the box that halts at the end of the  *)
(* track).  The forces and the units are those of the bouncing box;        *)
(* maxDistance is the constant 700 px.                                     *)
(***************************************************************************)
EndStopInit(m, g, mu, v0, rho) ==
    [mass |-> m, gravity |-> g, kineticFriction |-> mu,
     initialVelocity |-> v0, objectWidth |-> 80, objectHeight |-> 40,
     airDensity |-> rho, dragCoefficient |-> 105, maxDistance |-> 700,
     positionX |-> 0, velocity |-> v0, isSliding |-> FALSE,
     animationFrame |-> 0, lastTime |-> 0]

\* the step of simulate for a dt within the clamp: move, end stop, rest
EndStopIntegrate(b, dt) ==
    LET newVelocity == SliderNewVelocity(b, dt)
        moved == b.positionX + Quot(Quot(b.velocity + newVelocity, 2) * dt, 300)
        rightEdge == moved + b.objectWidth * 1000
        c == [b EXCEPT !.velocity = newVelocity, !.positionX = moved]
    IN  IF rightEdge >= b.maxDistance * 1000
        THEN [c EXCEPT !.positionX = b.maxDistance * 1000 - b.objectWidth * 500,
                       !.isSliding = FALSE]
        ELSE IF Abs(newVelocity) <= SliderRestSpeed
        THEN [c EXCEPT !.velocity = 0, !.isSliding = FALSE]
        ELSE c

\* simulate() on a sliding box at clock reading t; a frame h is requested
\* unless the run ended
EndStopSimulate(b, t, h) ==
    LET dt == t - b.lastTime
        q == [b EXCEPT !.lastTime = t]
        r == IF dt > SliderClamp THEN q ELSE EndStopIntegrate(q, dt)
    IN  IF r.isSliding THEN [r EXCEPT !.animationFrame = h] ELSE r

\* startSlide up to its call of simulate, at clock reading t
EndStopStarted(b, t) ==
    [b EXCEPT !.positionX = 0, !.velocity = b.initialVelocity,
              !.isSliding = TRUE, !.lastTime = t]

EndStopStartSlide ==
    /\ mounted = "endStop"
    /\ \E e \in InHandlerDelays :
        LET b == EndStopStarted(view, now)
        IN  /\ now + e <= MaxNow
            /\ now' = now + e
            /\ SliderRan("start", b,
                         EndStopSimulate(b, now', NewHandle(view.animationFrame)),
                         cancelAnimationFrame(frames, view.animationFrame))
    /\ UNCHANGED mounted

EndStopTick ==
    /\ mounted = "endStop"
    /\ \E f \in frames, d \in FrameIntervals :
        /\ f.fn = "simulate"
        /\ now + d <= MaxNow
        /\ now' = now + d
        /\ IF ~view.isSliding
           THEN /\ frames' = frames \ {f}
                /\ UNCHANGED view
                /\ event' = [op |-> "tick", dt |-> 0, applied |-> FALSE]
           ELSE SliderRan("tick", view,
                          EndStopSimulate(view, now',
                                          NewHandle(view.animationFrame)),
                          frames \ {f})
    /\ UNCHANGED mounted

\* a tick one steady frame after the previous clock reading, the origin of
\* the clock moved to the previous reading
EndStopSteadyTick ==
    /\ mounted = "endStop"
    /\ \E f \in frames :
        /\ f.fn = "simulate"
        /\ now' = SteadyFrame
        /\ IF ~view.isSliding
           THEN /\ frames' = frames \ {f}
                /\ UNCHANGED view
                /\ event' = [op |-> "tick", dt |-> 0, applied |-> FALSE]
           ELSE LET b == [view EXCEPT !.lastTime = 0]
                IN  SliderRan("tick", b,
                              EndStopSimulate(b, SteadyFrame,
                                              NewHandle(view.animationFrame)),
                              frames \ {f})
    /\ UNCHANGED mounted

EndStopNext ==
    \/ EndStopStartSlide
    \/ EndStopTick

EndStopRunNext ==
    \/ EndStopStartSlide
    \/ EndStopSteadyTick

(***************************************************************************)
(* Two bodies attracting each other (GravityAttractionSimulationComponent).*)
(* Positions in m (pxToM = 1e6, so 1 px = 1000000), velocities in m/s,     *)
(* masses in 1e23 kg, force in 1e23 N, the gravity multiplier in 1e7,      *)
(* radii, initial distance and widths in px.  simulate reads the clock     *)
(* itself.                                                                 *)
(***************************************************************************)
\* a * b / c without an intermediate product beyond 32 bits, b, c > 0
MulDiv(a, b, c) ==
    LET n == Abs(a)
        r == (n \div c) * b + ((n % c) * b) \div c
    IN  IF a < 0 THEN -r ELSE r

pxToM == 1000000

\* G = 6.67430e-11, in 1e-14
GravitationalConstant == 6674

GravityInit(m1, m2, dist, v0, gm, width) ==
    [mass1 |-> m1, mass2 |-> m2, radius1 |-> 30, radius2 |-> 15,
     gravityMultiplier |-> gm, initialDistance |-> dist,
     initialVelocity |-> v0, clientWidth |-> width, previewWidth |-> 600,
     pos1X |-> 0, pos2X |-> 0, vel1X |-> v0, vel2X |-> -v0,
     isRunning |-> FALSE, animationFrame |-> 0, lastTime |-> 0]

\* dt > 0.1 is not integrated
GravityClamp == 300

\* The value of 0 / 0 and of every operation one of whose operands is it;
\* a comparison with it is false.
NaN == -2147483647

IsNaN(x) == x = NaN

\* distanceMeters
GravityDistance(b) ==
    IF IsNaN(b.pos1X) \/ IsNaN(b.pos2X) THEN NaN
    ELSE Abs(b.pos2X - b.pos1X)

\* gravitationalForce * gravityMultiplier, the distance taken in 0.1 px
GravityForce(b) ==
    LET r == Quot(GravityDistance(b), pxToM \div 10)
    IN  IF IsNaN(GravityDistance(b)) THEN NaN
        ELSE IF GravityDistance(b) <= 0 THEN 0
        ELSE Quot(GravitationalConstant * b.gravityMultiplier * 1000,
                  Quot(r * r, 1000)) * b.mass1 * b.mass2

\* the bodies touch
GravityCollision(b) ==
    /\ ~IsNaN(GravityDistance(b))
    /\ GravityDistance(b) <= (b.radius1 + b.radius2) * pxToM

\* a = F / m
GravityAcceleration_Force(F, m) == F

\* F carries the factor m, so the quotient by a mass of 0 is 0 / 0
GravityAcceleration(F, m) ==
    IF IsNaN(F) \/ m = 0 THEN NaN ELSE Quot(F, m)

\* v + sign * a * dt
GravityKick(v, a, dt, sign) ==
    IF IsNaN(v) \/ IsNaN(a) THEN NaN
    ELSE v + sign * MulDiv(a, dt, UnitsPerSecond)

\* x + v * dt
GravityDrift(x, v, dt) ==
    IF IsNaN(x) \/ IsNaN(v) THEN NaN
    ELSE x + MulDiv(v, dt, UnitsPerSecond)

\* the step of simulate for a dt within the clamp, the bodies apart
GravityIntegrate(b, dt) ==
    LET F == GravityForce(b)
        a1 == GravityAcceleration(F, b.mass1)
        a2 == GravityAcceleration(F, b.mass2)
        direction == IF ~IsNaN(b.pos1X) /\ ~IsNaN(b.pos2X) /\ b.pos2X > b.pos1X
                     THEN 1 ELSE -1
        v1 == GravityKick(b.vel1X, a1, dt, direction)
        v2 == GravityKick(b.vel2X, a2, dt, -direction)
    IN  [b EXCEPT !.vel1X = v1, !.vel2X = v2,
                  !.pos1X = GravityDrift(@, v1, dt),
                  !.pos2X = GravityDrift(@, v2, dt)]

\* the branch of simulate for a dt over the clamp
GravitySkip(b, dt) == b

\* simulate() on a running pair at clock reading t; a frame h is requested
\* unless the bodies touch
GravitySimulate(b, t, h) ==
    LET dt == t - b.lastTime
        q == [b EXCEPT !.lastTime = t]
    IN  IF dt > GravityClamp THEN [GravitySkip(q, dt) EXCEPT !.animationFrame = h]
        ELSE IF GravityCollision(q) THEN [q EXCEPT !.isRunning = FALSE]
        ELSE [GravityIntegrate(q, dt) EXCEPT !.animationFrame = h]

\* startSimulation up to its call of simulate, at clock reading t
GravityStarted(b, t) ==
    [b EXCEPT !.previewWidth = b.clientWidth,
              !.pos1X = (b.clientWidth * pxToM) \div 2
                        - (b.initialDistance * pxToM) \div 2
                        - b.radius1 * pxToM,
              !.pos2X = (b.clientWidth * pxToM) \div 2
                        + (b.initialDistance * pxToM) \div 2
                        - b.radius2 * pxToM,
              !.vel1X = b.initialVelocity, !.vel2X = -b.initialVelocity,
              !.lastTime = t, !.isRunning = TRUE]

\* the effects of one call of simulate from state b that leaves state r
GravityRan(op, b, r, fs) ==
    /\ view' = r
    /\ frames' = IF r.isRunning
                 THEN requestAnimationFrame(fs, r.animationFrame,
                                            "simulate", 0)
                 ELSE fs
    /\ event' = [op |-> op, dt |-> r.lastTime - b.lastTime,
                 applied |-> /\ r.lastTime - b.lastTime <= GravityClamp
                             /\ r.isRunning]

GravityStartSimulation ==
    /\ mounted = "gravity"
    /\ \E e \in InHandlerDelays :
        LET b == GravityStarted(view, now)
        IN  /\ now + e <= MaxNow
            /\ now' = now + e
            /\ GravityRan("start", b,
                          GravitySimulate(b, now',
                                          NewHandle(view.animationFrame)),
                          cancelAnimationFrame(frames, view.animationFrame))
    /\ UNCHANGED mounted

GravityTick ==
    /\ mounted = "gravity"
    /\ \E f \in frames, d \in FrameIntervals :
        /\ f.fn = "simulate"
        /\ now + d <= MaxNow
        /\ now' = now + d
        /\ IF ~view.isRunning
           THEN /\ frames' = frames \ {f}
                /\ UNCHANGED view
                /\ event' = [op |-> "tick", dt |-> 0, applied |-> FALSE]
           ELSE GravityRan("tick", view,
                           GravitySimulate(view, now',
                                           NewHandle(view.animationFrame)),
                           frames \ {f})
    /\ UNCHANGED mounted

\* a tick one steady frame after the previous clock reading, the origin of
\* the clock moved to that reading: lastTime = 0, now = SteadyFrame
GravitySteadyTick ==
    /\ mounted = "gravity"
    /\ \E f \in frames :
        /\ f.fn = "simulate"
        /\ now' = SteadyFrame
        /\ IF ~view.isRunning
           THEN /\ frames' = frames \ {f}
                /\ UNCHANGED view
                /\ event' = [op |-> "tick", dt |-> 0, applied |-> FALSE]
           ELSE LET b == [view EXCEPT !.lastTime = 0]
                IN  GravityRan("tick", b,
                               GravitySimulate(b, SteadyFrame,
                                               NewHandle(view.animationFrame)),
                               frames \ {f})
    /\ UNCHANGED mounted

GravityNext ==
    \/ GravityStartSimulation
    \/ GravityTick

(***************************************************************************)
(* The two-body demo with a resizable preview (unnamed/part_001).  Units   *)
(* as in the gravity pair above; collisionTime in time units, -1 for null. *)
(* clientWidth is the width the browser gives the preview box.             *)
(***************************************************************************)
\* setInitialPositions
PairSetInitialPositions(b) ==
    [b EXCEPT !.pos1X = (b.previewWidth * pxToM) \div 2
                        - (b.initialDistance * pxToM) \div 2
                        - b.radius1 * pxToM,
              !.pos2X = (b.previewWidth * pxToM) \div 2
                        + (b.initialDistance * pxToM) \div 2
                        - b.radius2 * pxToM]

\* updatePreviewWidth: the slider's range follows the width, the distance
\* is clamped into it, and the bodies are put at their initial positions
PairUpdatePreviewWidth(b) ==
    LET w == b.clientWidth
        lo == w \div 10
        hi == (w * 8) \div 10
        d == IF b.initialDistance < lo THEN lo
             ELSE IF b.initialDistance > hi THEN hi ELSE b.initialDistance
    IN  PairSetInitialPositions(
            [b EXCEPT !.previewWidth = w, !.distanceMin = lo,
                      !.distanceMax = hi, !.initialDistance = d])

\* the component after onMounted
PairInit(m1, m2, dist, v0, gm, width) ==
    PairUpdatePreviewWidth(
        [mass1 |-> m1, mass2 |-> m2, radius1 |-> 30, radius2 |-> 15,
         gravityMultiplier |-> gm, initialVelocity |-> v0,
         initialDistance |-> dist, distanceMin |-> 100, distanceMax |-> 600,
         clientWidth |-> width, previewWidth |-> 600,
         pos1X |-> 0, pos2X |-> 0, vel1X |-> v0, vel2X |-> -v0,
         isRunning |-> FALSE, collisionTime |-> -1, startTime |-> 0,
         animationFrame |-> 0, lastTime |-> 0])

\* the separation at which simulate ends the run
PairContactDistance(b) == ((b.radius1 + b.radius2) + b.radius2) * pxToM

PairCollision(b) ==
    /\ ~IsNaN(GravityDistance(b))
    /\ GravityDistance(b) <= PairContactDistance(b)

\* simulate() on a running pair at clock reading t
PairSimulate(b, t, h) ==
    LET dt == t - b.lastTime
        q == [b EXCEPT !.lastTime = t]
    IN  IF dt > GravityClamp THEN [GravitySkip(q, dt) EXCEPT !.animationFrame = h]
        ELSE IF PairCollision(q)
             THEN [q EXCEPT !.isRunning = FALSE,
                            !.collisionTime = t - b.startTime]
        ELSE [GravityIntegrate(q, dt) EXCEPT !.animationFrame = h,
                                             !.collisionTime = t - b.startTime]

\* startSimulation up to its call of simulate, at clock reading t
PairStarted(b, t) ==
    [PairUpdatePreviewWidth(b) EXCEPT
        !.vel1X = b.initialVelocity, !.vel2X = -b.initialVelocity,
        !.lastTime = t, !.isRunning = TRUE,
        !.collisionTime = -1, !.startTime = t]

\* the clock reading up to which runs of this demo are followed
PairHorizon == 110

PairStartSimulation ==
    /\ mounted = "pair"
    /\ \E e \in InHandlerDelays :
        LET b == PairStarted(view, now)
        IN  /\ now + e <= PairHorizon
            /\ now' = now + e
            /\ GravityRan("start", b,
                          PairSimulate(b, now', NewHandle(view.animationFrame)),
                          cancelAnimationFrame(frames, view.animationFrame))
    /\ UNCHANGED mounted

PairTick ==
    /\ mounted = "pair"
    /\ \E f \in frames, d \in FrameIntervals :
        /\ f.fn = "simulate"
        /\ now + d <= PairHorizon
        /\ now' = now + d
        /\ IF ~view.isRunning
           THEN /\ frames' = frames \ {f}
                /\ UNCHANGED view
                /\ event' = [op |-> "tick", dt |-> 0, applied |-> FALSE]
           ELSE GravityRan("tick", view,
                           PairSimulate(view, now',
                                        NewHandle(view.animationFrame)),
                           frames \ {f})
    /\ UNCHANGED mounted

\* widths the window can be resized to, px
PairWidths == {400, 600}

\* the resize listener: updatePreviewWidth(), then setInitialPositions()
\* once more when no run is in progress
PairResize ==
    /\ mounted = "pair"
    /\ \E w \in PairWidths :
        LET b == PairUpdatePreviewWidth([view EXCEPT !.clientWidth = w])
        IN  view' = IF ~b.isRunning THEN PairSetInitialPositions(b) ELSE b
    /\ event' = [op |-> "resize", dt |-> 0, applied |-> FALSE]
    /\ UNCHANGED <<mounted, now, frames>>

\* the initial-distance slider: v-model stores the value, then @input
\* calls setInitialPositions
PairDistanceInput ==
    /\ mounted = "pair"
    /\ \E d \in {view.distanceMin, 300} :
        /\ view.distanceMin <= d /\ d <= view.distanceMax
        /\ view' = PairSetInitialPositions([view EXCEPT !.initialDistance = d])
    /\ event' = [op |-> "input", dt |-> 0, applied |-> FALSE]
    /\ UNCHANGED <<mounted, now, frames>>

PairNext ==
    \/ PairStartSimulation
    \/ PairTick
    \/ PairResize
    \/ PairDistanceInput

(***************************************************************************)
(* Specifications.                                                         *)
(***************************************************************************)
InitSpring ==
    /\ mounted = "spring"
    /\ now = 0
    /\ frames = {}
    /\ event = NoEvent
    /\ \E c \in {0, 5}, x0 \in {0, 500} :
          view = SpringInit(1, 100, c, x0, 1)

SpecSpring == InitSpring /\ [][SpringNext]_vars

\* the spring demo whose controls are one Start/Stop button and Restart
SpecSpringToggle == InitSpring /\ [][SpringToggleNext]_vars

InitPendulum ==
    /\ mounted = "pendulum"
    /\ now = 0
    /\ frames = {}
    /\ event = NoEvent
    /\ \E deg \in {-30, 90}, dmp \in {0, 100} :
          view = PendulumInit(200, 981, deg, dmp)

SpecPendulum == InitPendulum /\ [][PendulumNext]_vars

InitPendulum2 ==
    /\ mounted = "pendulum2"
    /\ now = 0
    /\ frames = {}
    /\ event = NoEvent
    /\ \E deg \in {30, 90}, dmp \in {0, 20} :
          view = PendulumInit(200, 980, deg, dmp)

SpecPendulum2 == InitPendulum2 /\ [][Pendulum2Next]_vars

InitSwing ==
    /\ mounted = "swing"
    /\ now = 0
    /\ frames = {}
    /\ event = NoEvent
    /\ \E deg \in {-30, 90}, dmp \in {0, 100} :
          view = SwingInit(200, 981, deg, dmp)

SpecSwing == InitSwing /\ [][SwingNext]_vars

InitBallDrop ==
    /\ mounted = "ballDrop"
    /\ now = 0
    /\ frames = {}
    /\ event = NoEvent
    /\ \E w \in {10, 220} : view = BallDropInit(w, 98, 40)

SpecBallDrop == InitBallDrop /\ [][BallNext]_vars

\* a drop is started only when none is in progress, and every requested
\* frame is eventually delivered
BallStartFromIdle == ~view.isDropping /\ BallStartDrop

BallRunNext ==
    \/ BallStartFromIdle
    \/ BallTick

SpecBallDropRuns ==
    InitBallDrop /\ [][BallRunNext]_vars /\ WF_vars(BallTick)

InitDrop ==
    /\ mounted = "dropSimulation"
    /\ now = 0
    /\ frames = {}
    /\ event = NoEvent
    /\ \E w \in {10, 220}, g \in {10, 98} : view = DropInit(w, g, 40, 1225, 47)

SpecDrop == InitDrop /\ [][DropNext]_vars

InitProjectile ==
    /\ mounted = "projectile"
    /\ now = 0
    /\ frames = {}
    /\ event = NoEvent
    /\ \E angle \in {10, 30} : view = ProjectileInit(angle, 1000, 0, 10)

SpecProjectile == InitProjectile /\ [][ProjectileNext]_vars

InitBallistic ==
    /\ mounted = "ballistic"
    /\ now = 0
    /\ frames = {}
    /\ event = NoEvent
    /\ \E angle \in BallisticAngles :
          view = BallisticInit(angle, 1000, 0, 10)

SpecBallistic == InitBallistic /\ [][BallisticNext]_vars

\* flights followed to their landing: started only from idle, with the
\* origin of the clock moved to the start (the component uses clock
\* readings only through timestamp - startTime), frames at a steady 60 Hz,
\* every requested frame eventually delivered
BallisticStartFromIdle ==
    /\ mounted = "ballistic"
    /\ ~view.isRunning
    /\ LET r == BallisticRestarted(view, frames, 0)
       IN  /\ view' = r.state
           /\ frames' = r.frames
    /\ now' = 0
    /\ event' = [op |-> "start", dt |-> 0, applied |-> FALSE]
    /\ UNCHANGED mounted

BallisticSteadyStep ==
    /\ mounted = "ballistic"
    /\ \E f \in frames :
        /\ f.fn = "step"
        /\ now' = now + SteadyFrame
        /\ BallisticStepped(f, now')
    /\ UNCHANGED mounted

BallisticRunNext ==
    \/ BallisticStartFromIdle
    \/ BallisticSteadyStep

InitBallisticRuns ==
    /\ mounted = "ballistic"
    /\ now = 0
    /\ frames = {}
    /\ event = NoEvent
    /\ \E angle \in {0, 10, 30}, velocity \in {1000, 2000},
          height \in {0, 100}, gm \in {5, 10} :
          view = BallisticInit(angle, velocity, height, gm)

SpecBallisticRuns ==
    InitBallisticRuns /\ [][BallisticRunNext]_vars /\ WF_vars(BallisticSteadyStep)

InitSlider ==
    /\ mounted = "slider"
    /\ now = 0
    /\ frames = {}
    /\ event = NoEvent
    /\ \E mu \in {25, 100}, v0 \in {1000, 10000} :
          view = SliderInit(10, 98, mu, v0, 1225)

SpecSlider == InitSlider /\ [][SliderNext]_vars

InitGravity ==
    /\ mounted = "gravity"
    /\ now = 0
    /\ frames = {}
    /\ event = NoEvent
    /\ \E dist \in {100, 300}, v0 \in {0, 1000} :
          view = GravityInit(60, 1, dist, v0, 5, 600)

SpecGravity == InitGravity /\ [][GravityNext]_vars

\* the attraction demo with the first mass set to 0 in its number input
InitGravityMassless ==
    /\ mounted = "gravity"
    /\ now = 0
    /\ frames = {}
    /\ event = NoEvent
    /\ \E v0 \in {0, 1000} : view = GravityInit(0, 1, 300, v0, 5, 600)

SpecGravityMassless == InitGravityMassless /\ [][GravityNext]_vars

\* the slider launched at its lowest speed on a track without air:
\* friction 0.24, 0.1 m/s
InitSliderSlow ==
    /\ mounted = "slider"
    /\ now = 0
    /\ frames = {}
    /\ event = NoEvent
    /\ view = SliderInit(10, 98, 24, 1000, 0)

SpecSliderSlow == InitSliderSlow /\ [][SliderNext]_vars

\* a slide is started only when none is in progress, frames arrive at a
\* steady 60 Hz, and every requested frame is eventually delivered
SliderStartFromIdle == ~view.isSliding /\ SliderStartSlide

SliderRunNext ==
    \/ SliderStartFromIdle
    \/ SliderSteadyTick

\* no air, friction 0.24, launched at 4.9 m/s
InitSliderRuns ==
    /\ mounted = "slider"
    /\ now = 0
    /\ frames = {}
    /\ event = NoEvent
    /\ view = SliderInit(10, 98, 24, 49000, 0)

SpecSliderRuns ==
    InitSliderRuns /\ [][SliderRunNext]_vars /\ WF_vars(SliderSteadyTick)

\* a damped pendulum released at or near the vertical and left to itself:
\* a swing is started only when none is in progress, frames arrive at a
\* steady 60 Hz, and every requested frame is eventually delivered
InitPendulumRuns ==
    /\ mounted = "pendulum"
    /\ now = 0
    /\ frames = {}
    /\ event = NoEvent
    /\ \E deg \in {0, 1, 2} : view = PendulumInit(200, 981, deg, 100)

PendulumStartFromIdle == ~view.isSwinging /\ PendulumStartSwing

PendulumRunNext ==
    \/ PendulumStartFromIdle
    \/ PendulumSteadyTick

SpecPendulumRuns ==
    InitPendulumRuns /\ [][PendulumRunNext]_vars /\ WF_vars(PendulumSteadyTick)

InitPair ==
    /\ mounted = "pair"
    /\ now = 0
    /\ frames = {}
    /\ event = NoEvent
    /\ view = PairInit(60, 1, 300, 0, 5, 600)

SpecPair == InitPair /\ [][PairNext]_vars

TwoBodyNext ==
    \/ GravityNext
    \/ PairNext

SpecTwoBody == (InitGravity \/ InitPair) /\ [][TwoBodyNext]_vars

\* the two pendulum demos with their initial-angle slider
AnglePreviewNext ==
    \/ PendulumNext
    \/ SwingNext
    \/ PendulumAngleInput
    \/ SwingAngleInput

SpecAnglePreview == (InitPendulum \/ InitSwing) /\ [][AnglePreviewNext]_vars

\* attraction runs followed to their end: started only from idle, frames at
\* a steady 60 Hz
GravityStartFromIdle == ~view.isRunning /\ GravityStartSimulation

GravityRunNext ==
    \/ GravityStartFromIdle
    \/ GravitySteadyTick

SpecGravityRuns == InitGravity /\ [][GravityRunNext]_vars

WallClockNext ==
    \/ PendulumNext
    \/ SliderNext
    \/ GravityNext

SpecWallClock ==
    (InitPendulum \/ InitSlider \/ InitGravity) /\ [][WallClockNext]_vars

OscillatorNext ==
    \/ SpringNext
    \/ PendulumNext
    \/ SwingNext

SpecOscillators ==
    (InitSpring \/ InitPendulum \/ InitSwing) /\ [][OscillatorNext]_vars

(***************************************************************************)
(* What the claims speak of.                                               *)
(***************************************************************************)
\* the run is in progress
Running ==
    CASE mounted = "spring" -> view.isRunning
      [] mounted \in {"pendulum", "swing"} -> view.isSwinging
      [] mounted \in {"ballDrop", "dropSimulation"} -> view.isDropping
      [] mounted \in {"projectile", "gravity", "pair"} -> view.isRunning
      [] mounted = "slider" -> view.isSliding

\* position, velocity, elapsed time and trace of the mounted demo
Motion ==
    CASE mounted = "spring" ->
            <<view.position, view.velocity, view.time, view.pathPoints>>
      [] mounted \in {"pendulum", "swing"} ->
            <<view.angle, view.angularVelocity>>
      [] mounted \in {"ballDrop", "dropSimulation"} ->
            <<view.ballY, view.velocity>>
      [] mounted = "slider" ->
            <<view.positionX, view.velocity, view.totalBounces>>
      [] mounted \in {"gravity", "pair"} ->
            <<view.pos1X, view.pos2X, view.vel1X, view.vel2X>>
      [] mounted = "projectile" ->
            <<view.posX, view.posY, view.pathPoints>>

\* the longest dt the mounted wall-clock demo integrates
Clamp ==
    CASE mounted = "pendulum" -> PendulumClamp
      [] mounted = "slider" -> SliderClamp
      [] mounted = "gravity" -> GravityClamp

(***************************************************************************)
(* C1.  Spring and pendulum: stop leaves the run stopped; from then until  *)
(* the next start no handler changes position, velocity, angle, elapsed    *)
(* time or the path; a stop while nothing runs changes nothing at all.     *)
(***************************************************************************)
C1_StopFreezes ==
    [][ /\ event'.op = "stop" => ~Running' /\ Motion' = Motion
        /\ ~Running /\ event'.op # "start" => ~Running' /\ Motion' = Motion
        /\ ~Running /\ event'.op = "stop" => view' = view /\ frames' = frames
      ]_vars

\* a spring stopped in mid-swing, and stop pressed once more
C1_Witness ==
    /\ mounted = "spring"
    /\ event.op = "stop"
    /\ ~view.isRunning
    /\ view.velocity # 0
    /\ view.time > 0

(***************************************************************************)
(* C2.  In every demo at most one tick callback is scheduled at any time,  *)
(* so a superseded run has no callback left that could change the state.   *)
(***************************************************************************)
C2_OneTickScheduled == Cardinality(frames) <= 1

(***************************************************************************)
(* C3.  Projectile: a start pressed during a run leaves exactly what a     *)
(* start from idle leaves: the initial position, an empty path, Running,   *)
(* and exactly one scheduled tick, the fresh closure with t = 0.           *)
(***************************************************************************)
C3_RestartIsStart ==
    mounted = "projectile" /\ event.op = "start" =>
        /\ view = [ProjectileStarted(
                       ProjectileInit(view.launchAngle, view.launchVelocity,
                                      view.initialHeight,
                                      view.gravityMultiplier), now)
                   EXCEPT !.animationFrame = view.animationFrame]
        /\ frames = {[handle |-> view.animationFrame, fn |-> "step",
                      env |-> ProjectileClosure(0, view.initialHeight,
                                                view.launchVelocity,
                                                view.launchAngle)]}

(***************************************************************************)
(* C4.  Drop demos: when start returns, the state is the initial state of  *)
(* the run, ballY = 0 and velocity = 0, and the run is Running; the first  *)
(* integration step is left to the first scheduled tick.                   *)
(***************************************************************************)
C4_StartLeavesInitialState ==
    mounted \in {"ballDrop", "dropSimulation"} /\ event.op = "start" =>
        /\ view.ballY = 0
        /\ view.velocity = 0
        /\ Running

(***************************************************************************)
(* C5.  Wall-clock demos (spring, gravity, friction, pendulum): every dt   *)
(* that is integrated satisfies 0 < dt <= 0.1 s; a tick that measures a    *)
(* zero, negative or larger dt is skipped.                                 *)
(***************************************************************************)
C5_AppliedStepInRange ==
    mounted \in {"spring", "gravity", "slider", "pendulum"} /\ event.applied =>
        0 < event.dt /\ event.dt <= 300

(***************************************************************************)
(* C6.  Gravity, friction slider and wall-clock pendulum: a tick of a run  *)
(* in progress that measures a dt above the clamp changes no position and  *)
(* no velocity; it records the clock reading as lastTime, schedules the    *)
(* next tick, and the run stays Running.                                   *)
(***************************************************************************)
C6_LongFrameSkipped ==
    [][ /\ mounted \in {"pendulum", "slider", "gravity"}
        /\ event'.op = "tick"
        /\ Running
        /\ now' - view.lastTime > Clamp
        => /\ Motion' = Motion
           /\ Running'
           /\ view' = [view EXCEPT !.lastTime = now',
                                   !.animationFrame = view'.animationFrame]
           /\ frames' = {[handle |-> view'.animationFrame,
                          fn |-> "simulate", env |-> 0]}
      ]_vars

\* a pair of bodies already moving, whose last tick came after 103 ms
C6_Witness ==
    /\ mounted = "gravity"
    /\ event.op = "tick"
    /\ event.dt > GravityClamp
    /\ ~event.applied
    /\ view.isRunning
    /\ view.lastTime = now
    /\ view.vel2X # -view.initialVelocity

(***************************************************************************)
(* C7.  Drop demos: every run, left to itself, reaches isDropping = false  *)
(* after finitely many ticks.                                              *)
(***************************************************************************)
C7_DropComesToRest ==
    (mounted \in {"ballDrop", "dropSimulation"} /\ Running) ~> ~Running

(***************************************************************************)
(* C8.  Drop demos and friction slider: whenever a tick ends the run by    *)
(* the rest condition, the velocity it stores is exactly zero.             *)
(***************************************************************************)
C8_RestVelocityZero ==
    /\ mounted \in {"ballDrop", "dropSimulation", "slider"}
    /\ event.op \in {"start", "tick"}
    /\ event.applied
    /\ ~Running
    => view.velocity = 0

(***************************************************************************)
(* C9.  Friction slider with a positive friction coefficient and positive  *)
(* gravity: every run, left to itself, reaches isSliding = false after     *)
(* finitely many ticks, also when every tick measures the same dt.         *)
(***************************************************************************)
C9_SlideComesToRest ==
    (mounted = "slider" /\ Running) ~> ~Running

(***************************************************************************)
(* C10.  Damped spring and damped pendulum: every run, left to itself,     *)
(* reaches Stopped on its own, with velocity zero.                         *)
(***************************************************************************)
C10_DampedRunStops ==
    (mounted \in {"spring", "pendulum"} /\ Running)
        ~> (~Running /\ Motion[2] = 0)

\* mass1 * vel1X + mass2 * vel2X of the two-body demos
Momentum == view.mass1 * view.vel1X + view.mass2 * view.vel2X

\* what rounding can add to the momentum in one step: each velocity change
\* is rounded twice to a whole m/s
MomentumTolerance == 2 * (view.mass1 + view.mass2)

(***************************************************************************)
(* C11.  Two-body demos: every integration step changes the velocities so  *)
(* that mass1 * dv1 = -mass2 * dv2 up to rounding, the step start applies  *)
(* to the initial velocities included, and no other handler touches the    *)
(* velocities; so the momentum of a run stays the one it had after start.  *)
(***************************************************************************)
C11_MomentumSymmetry ==
    [][ /\ (mounted \in {"gravity", "pair"} /\ event'.op = "start")
            => Abs(Momentum' - (view'.mass1 - view'.mass2)
                                   * view'.initialVelocity)
                   <= MomentumTolerance
        /\ (mounted \in {"gravity", "pair"} /\ event'.op = "tick")
            => Abs(Momentum' - Momentum) <= MomentumTolerance
        /\ (mounted \in {"gravity", "pair"} /\ event'.op \notin {"start", "tick"})
            => (view'.vel1X = view.vel1X /\ view'.vel2X = view.vel2X)
      ]_vars

\* a tick has pulled both bodies toward each other
C11_Witness ==
    /\ mounted = "gravity"
    /\ event.op = "tick"
    /\ event.applied
    /\ view.vel1X > view.initialVelocity + 50
    /\ view.vel2X < -view.initialVelocity - 3000

(***************************************************************************)
(* C12.  Two-body demos: a run is stopped by its tick only at a measured   *)
(* separation |pos2X - pos1X| of at most radius1 + radius2.                *)
(***************************************************************************)
C12_StopsOnlyAtContact ==
    /\ mounted \in {"gravity", "pair"}
    /\ event.op \in {"start", "tick"}
    /\ ~Running
    => GravityDistance(view) <= (view.radius1 + view.radius2) * pxToM

(***************************************************************************)
(* C13.  Attraction demo: a tick that finds a position or a velocity that  *)
(* is not a finite number (the first mass set to 0 makes them 0 / 0)       *)
(* leaves the run Stopped.                                                 *)
(***************************************************************************)
C13_NonFiniteStops ==
    [][ (/\ mounted = "gravity"
         /\ Running
         /\ \E i \in 1..4 : IsNaN(Motion[i])
         /\ event'.op = "tick")
        => ~Running' ]_vars
(***************************************************************************)
(* C14.  Attraction demo with the resize listener: while a run is in       *)
(* progress a window resize and a move of the initial-distance slider      *)
(* leave pos1X, pos2X, vel1X and vel2X unchanged.                          *)
(***************************************************************************)
C14_RunKeepsBodies ==
    [][ (/\ mounted = "pair"
         /\ Running
         /\ event'.op \in {"resize", "input"})
        => Motion' = Motion ]_vars
(***************************************************************************)
(* C15.  Undamped spring: after every tick of a run the mechanical energy  *)
(* (1/2) k x^2 + (1/2) m v^2 is within a tolerance of the energy the run   *)
(* started with, (1/2) k initialDisplacement^2.  The tolerance taken here  *)
(* is a tenth of the starting energy.                                      *)
(***************************************************************************)
C15_UndampedEnergyKept ==
    (/\ mounted = "spring"
     /\ view.dampingCoefficient = 0
     /\ view.isRunning
     /\ event.op = "tick")
    => 10 * Abs(SpringEnergy(view) - SpringStartEnergy(view)) <= SpringStartEnergy(view)
(***************************************************************************)
(* C16.  Spring demo and accumulator pendulum: start pressed while a run   *)
(* is in progress changes nothing: the whole component state (time,        *)
(* position or angle, velocity, path, accumulator) and the set of          *)
(* requested frames stay as they were.                                     *)
(***************************************************************************)
C16_StartWhileRunningNoOp ==
    [][ (/\ mounted \in {"spring", "swing"}
         /\ Running
         /\ event'.op = "start")
        => (view' = view /\ frames' = frames) ]_vars

C16_Witness ==
    /\ mounted = "spring"
    /\ event.op = "start"
    /\ view.isRunning
    /\ view.time > 0
    /\ Len(view.pathPoints) > 1
    /\ frames # {}
(***************************************************************************)
(* C17.  Spring demo with the Restart button: a press of Restart leaves a  *)
(* fresh run: time 0, position initialDisplacement, velocity 0 and a path  *)
(* of the initial point alone.                                             *)
(***************************************************************************)
C17_RestartBeginsFreshRun ==
    (mounted = "spring" /\ event.op = "restart")
    => /\ view.isRunning
       /\ view.time = 0
       /\ view.position = view.initialDisplacement
       /\ view.velocity = 0
       /\ view.pathPoints = <<[t |-> 0, y |-> view.initialDisplacement]>>
(***************************************************************************)
(* C18.  Demos that draw a trace (spring, stepped projectile): a tick      *)
(* changes pathPoints only by appending one sample at its end, a start     *)
(* leaves at most the initial point, and the trace holds the samples of    *)
(* one run only: each appended sample is later in that run's flight than   *)
(* the sample before it (a larger t for the spring, a horizontal position  *)
(* no smaller for the projectile, which flies in the +x direction).        *)
(***************************************************************************)
C18_TraceOfOneRun ==
    [][ (mounted \in {"spring", "projectile"})
        => LET old == view.pathPoints
               new == view'.pathPoints
               n == Len(old)
           IN  /\ (event'.op = "tick" /\ new # old)
                   => (/\ Len(new) = n + 1
                       /\ SubSeq(new, 1, n) = old
                       /\ (n > 0 /\ mounted = "spring") => (new[n + 1].t > old[n].t)
                       /\ (n > 0 /\ mounted = "projectile") => (new[n + 1].x >= old[n].x))
               /\ (event'.op = "start" /\ new # old) => (Len(new) <= 1) ]_vars
(***************************************************************************)
(* C19.  Pendulum demos with an angle preview: a move of the initial-angle *)
(* slider while the pendulum is not swinging sets angle to                 *)
(* initialAngle * pi / 180 and angularVelocity to 0; a move while it is    *)
(* swinging leaves angle and angularVelocity as they were.                 *)
(***************************************************************************)
C19_AnglePreviewOnlyWhenIdle ==
    [][ (mounted \in {"pendulum", "swing"} /\ event'.op = "input")
        => IF view.isSwinging
           THEN /\ view'.angle = view.angle
                /\ view'.angularVelocity = view.angularVelocity
           ELSE /\ view'.angle = Quot(view'.initialAngle * Pi, 180)
                /\ view'.angularVelocity = 0 ]_vars

\* the slider moved to 45 degrees in mid-swing
C19_Witness ==
    /\ mounted = "swing"
    /\ event.op = "input"
    /\ view.isSwinging
    /\ view.angularVelocity # 0
    /\ view.initialAngle = 45
    /\ view.angle # Quot(45 * Pi, 180)
(***************************************************************************)
(* C20.  Attraction demo: the contact condition is evaluated on the state  *)
(* the tick's own position update produced, so no tick ends with the run   *)
(* still in progress and the bodies at a separation of at most             *)
(* radius1 + radius2.                                                      *)
(***************************************************************************)
C20_NoTickEndsInContact ==
    (/\ mounted = "gravity"
     /\ event.op = "tick"
     /\ view.isRunning)
    => ~GravityCollision(view)
(***************************************************************************)
(* C21.  Bouncing friction slider: when a step of simulate ends with the   *)
(* box clamped to an end of the track (a wall contact), the rest condition *)
(* is evaluated on the velocity the bounce left: if that velocity is       *)
(* within 0.01 m/s of zero the run has ended.                              *)
(***************************************************************************)
C21_RestTestedAfterBounce ==
    (/\ mounted = "slider"
     /\ event.op \in {"start", "tick"}
     /\ event.applied
     /\ view.totalBounces > 0
     /\ view.positionX \in {0, (view.maxDistance - view.objectWidth) * 1000}
     /\ Abs(view.velocity) <= SliderRestSpeed)
    => ~view.isSliding
(***************************************************************************)
(* C22.  Accumulator pendulum: a tick that measures dt since the tick      *)
(* before it (0 on the first tick of a run) makes k whole steps of exactly *)
(* 1/60 s, k the number of whole steps in accumulatedTime + dt, and keeps  *)
(* the remainder: accumulatedTime' + k/60 = accumulatedTime + dt with      *)
(* 0 <= accumulatedTime' < 1/60.  Summed over a run, the simulated time    *)
(* never exceeds the time elapsed since the first tick and lags it by less *)
(* than one step.                                                          *)
(***************************************************************************)
C22_FixedStepAccounting ==
    [][ (mounted = "swing" /\ view.isSwinging /\ event'.op = "tick")
        => LET dt == IF view.lastTime = 0 THEN 0 ELSE now' - view.lastTime
               k == (view.accumulatedTime + dt) \div fixedTimeStep
               q == SwingSteps(view, k)
           IN  /\ view'.accumulatedTime + k * fixedTimeStep
                      = view.accumulatedTime + dt
               /\ view'.accumulatedTime >= 0
               /\ view'.accumulatedTime < fixedTimeStep
               /\ view'.angle = q.angle
               /\ view'.angularVelocity = q.angularVelocity ]_vars

\* a frame of 160/3000 s after the first tick: three steps, 10/3000 s kept
C22_Witness ==
    /\ mounted = "swing"
    /\ event.op = "tick"
    /\ event.applied
    /\ view.isSwinging
    /\ view.accumulatedTime = 10
    /\ view.angularVelocity # 0
(***************************************************************************)
(* C23.  Ball drop: a step in free fall (no ground contact) first adds     *)
(* acceleration * dt to the velocity and then adds the new velocity * dt   *)
(* to the position, dt = 0.016 s in both updates.                          *)
(***************************************************************************)
C23_SemiImplicitStep ==
    [][ (/\ mounted = "ballDrop"
         /\ view.isDropping
         /\ event'.op = "tick"
         /\ view'.ballY < (BallMaxDrop - view.ballSize) * 1000)
        => LET v1 == view.velocity
                       + Quot(view.gravity * view.weight * event'.dt, 100)
           IN  /\ view'.velocity = v1
               /\ view'.ballY = view.ballY + Quot(v1 * event'.dt, 1000) ]_vars
(***************************************************************************)
(* C24.  Pendulum variants: the angular acceleration a step applies is     *)
(* -(gravity / L) * sin(angle) - damping * angularVelocity, L the length   *)
(* in metres (length px / 100): the step changes angularVelocity by that   *)
(* acceleration times the measured dt.                                     *)
(***************************************************************************)
C24_AccelerationOverMetres ==
    [][ (/\ mounted \in {"pendulum", "pendulum2"}
         /\ view.isSwinging
         /\ event'.op = "tick"
         /\ event'.applied)
        => view'.angularVelocity
             = view.angularVelocity
                 + Quot((-Quot(view.gravity * Sin(view.angle), view.length)
                         - Quot(view.damping * view.angularVelocity, 10000))
                        * event'.dt, UnitsPerSecond) ]_vars
(***************************************************************************)
(* C25.  Closed-form projectile: every run comes to a stop, and the state  *)
(* it stops in has posX = horizontalRange * pxPerMeter, posY = 0 and that  *)
(* landing point as the last point of the path.                            *)
(***************************************************************************)
BallisticAtLanding ==
    /\ ~view.isRunning
    /\ view.posX = horizontalRange(view) * pxPerMeter
    /\ view.posY = 0
    /\ Len(view.pathPoints) > 0
    /\ view.pathPoints[Len(view.pathPoints)]
         = [x |-> horizontalRange(view) * pxPerMeter, y |-> 0]

C25_FlightLands ==
    (mounted = "ballistic" /\ view.isRunning) ~> BallisticAtLanding

\* a shot of 2 m/s at 30 degrees from 0.1 m, landed 0.48 m away
C25_Witness ==
    /\ mounted = "ballistic"
    /\ event.op = "tick"
    /\ BallisticAtLanding
    /\ view.launchVelocity = 2000
    /\ view.launchAngle = 30
    /\ view.initialHeight = 100
    /\ view.posX > 2000
    /\ Len(view.pathPoints) > 2
(***************************************************************************)
(* C26.  Closed-form projectile: a change of launchAngle, launchVelocity   *)
(* or initialHeight during a run restarts the run with the new values:     *)
(* posX = 0, posY = initialHeight * pxPerMeter, the path is the initial    *)
(* point alone, the clock of the run starts again and exactly one step     *)
(* closure, made from the new values, is pending.  A change while no run   *)
(* is in progress starts nothing.                                          *)
(***************************************************************************)
C26_ParameterChangeRestarts ==
    [][ (mounted = "ballistic" /\ event'.op = "input")
        => IF view.isRunning
           THEN /\ view'.isRunning
                /\ view'.posX = 0
                /\ view'.posY = view'.initialHeight * pxPerMeter
                /\ view'.pathPoints
                     = <<[x |-> 0, y |-> view'.initialHeight * pxPerMeter]>>
                /\ view'.startTime = now'
                /\ Cardinality(frames') = 1
                /\ \A f \in frames' :
                      /\ f.handle = view'.animationFrame
                      /\ f.env.vx = Quot(view'.launchVelocity
                                           * Cos(Radians(view'.launchAngle)), 10000)
                      /\ f.env.vy0 = Quot(view'.launchVelocity
                                            * Sin(Radians(view'.launchAngle)), 10000)
           ELSE /\ ~view'.isRunning
                /\ frames' = frames
                /\ view'.posX = view.posX
                /\ view'.pathPoints = view.pathPoints ]_vars

\* launchVelocity raised to 2 m/s in mid-flight, after the path had grown
C26_Witness ==
    /\ mounted = "ballistic"
    /\ event.op = "input"
    /\ view.isRunning
    /\ view.launchVelocity = 2000
    /\ view.startTime = now
    /\ now >= 100
    /\ view.posX = 0
    /\ Len(view.pathPoints) = 1
    /\ Cardinality(frames) = 1
(***************************************************************************)
(* C27.  Friction slider: the friction step of a tick never reverses the   *)
(* direction of motion.  On a tick that integrates and does not bounce,    *)
(* the velocity written has the sign of the velocity before the tick, or   *)
(* is zero.                                                                *)
(***************************************************************************)
C27_FrictionNeverReverses ==
    [][ (/\ mounted = "slider"
         /\ view.isSliding
         /\ event'.op = "tick"
         /\ event'.applied
         /\ view'.totalBounces = view.totalBounces)
        => /\ view.velocity > 0 => view'.velocity >= 0
           /\ view.velocity < 0 => view'.velocity <= 0 ]_vars
\* the box with the end stop, 50 kg, launched at 5 or 10 m/s on a track of
\* friction 0.01 or 0.25
InitEndStop ==
    /\ mounted = "endStop"
    /\ now = 0
    /\ frames = {}
    /\ event = NoEvent
    /\ \E mu \in {1, 25}, v0 \in {50000, 100000} :
          view = EndStopInit(500, 98, mu, v0, 1225)

SpecEndStop == InitEndStop /\ [][EndStopNext]_vars

\* the same box with frames at a steady 60 Hz
SpecEndStopRuns == InitEndStop /\ [][EndStopRunNext]_vars

(***************************************************************************)
(* C29.  Friction sliders on a track of unchanged width: at the end of     *)
(* every tick and in every stopped state the box lies within the track,    *)
(* 0 <= positionX and positionX + objectWidth <= maxDistance.              *)
(***************************************************************************)
C29_BoxWithinTrack ==
    mounted \in {"slider", "endStop"} =>
        /\ 0 <= view.positionX
        /\ view.positionX + view.objectWidth * 1000 <= view.maxDistance * 1000
\* the two drop demos, either one mounted, with light and heavy, small and
\* large balls under weak and strong gravity
InitDrops ==
    /\ now = 0
    /\ frames = {}
    /\ event = NoEvent
    /\ \/ /\ mounted = "ballDrop"
          /\ \E w \in {1, 10, 220, 10000}, g \in {10, 98, 500}, size \in {20, 40, 100} :
                view = BallDropInit(w, g, size)
       \/ /\ mounted = "dropSimulation"
          /\ \E w \in {5, 220, 10000}, g \in {10, 98, 500}, size \in {20, 40, 100} :
                view = DropInit(w, g, size, 1225, 47)

DropsNext ==
    \/ BallStartDrop
    \/ BallTick
    \/ DropStartDrop
    \/ DropTick

SpecDrops == InitDrops /\ [][DropsNext]_vars

(***************************************************************************)
(* C28.  Drop demos with unchanged parameters: at the end of every tick    *)
(* the ball lies between the release height and the ground,                *)
(* 0 <= ballY <= maxDrop - ball size.                                      *)
(***************************************************************************)
C28_BallWithinDrop ==
    /\ mounted = "ballDrop" =>
          /\ 0 <= view.ballY
          /\ view.ballY <= (BallMaxDrop - view.ballSize) * 1000
    /\ mounted = "dropSimulation" =>
          /\ 0 <= view.ballY
          /\ view.ballY <= DropMaxDrop - view.objectSize * 10

\* a ball on its way up after a bounce, a tick just ended
C28_Witness ==
    /\ mounted = "dropSimulation"
    /\ event.op = "tick"
    /\ event.applied
    /\ view.isDropping
    /\ view.velocity < 0
    /\ 0 < view.ballY
    /\ view.ballY < DropMaxDrop - view.objectSize * 10
(***************************************************************************)
(* C30.  Closed-form projectile: in every reachable state the projectile   *)
(* is on or above the ground and between the launch point and the landing  *)
(* point, posY >= 0 and 0 <= posX <= horizontalRange * pxPerMeter.         *)
(***************************************************************************)
C30_WithinFlightBox ==
    mounted = "ballistic" =>
        /\ view.posY >= 0
        /\ 0 <= view.posX
        /\ view.posX <= horizontalRange(view) * pxPerMeter

====
